---- MODULE Spec2Model ----
(***************************************************************************)
(* A model of src/Renderer.h of FractalTracer: Scene::nearestIntersection, *)
(* RadicalInverse and the bounce loop of generateColour.                   *)
(*                                                                         *)
(* Units.  Distances are integers in units of ray_epsilon, so a reported   *)
(* distance of 1 is exactly ray_epsilon.  Colours are 3-vectors of         *)
(* integers; radiance (sky, direct light, contribution) is in units of     *)
(* 0.01.  The geometry of the scene objects (SceneObject::intersect and    *)
(* getNormal) is outside Renderer.h: what an object reports for a ray is   *)
(* an input of the step that asks for it.  Real arithmetic is exact: a     *)
(* RadicalInverse value is kept as the pair of reversedDigits and the      *)
(* exponent n of invBaseN = base^-n, int arithmetic keeps its 32-bit range.*)
(* hash, uintToUnitReal, wrap01 and the camera's vector algebra only feed  *)
(* the directions of the rays, which are inputs here; the int arithmetic   *)
(* of the pixel index and of the RadicalInverse calls is kept, because its *)
(* overflow is undefined: the build wraps and goes on, or traps.           *)
(***************************************************************************)
EXTENDS Integers, Sequences, FiniteSets, TLC

VARIABLES
    \* ---- generateColour ----
    pc,             \* position in generateColour: idle, start, trace, light, bounce,
                    \* done (returned), trap (aborted on a signed overflow)
    pass,           \* the argument pass
    world,          \* world.objects: the colour of each scene object, in list order
    ray,            \* ray (its direction's y component): camera_ray until the
                    \* first scatter
    throughput,     \* throughput
    contribution,   \* contribution
    bounce,         \* bounce
    nearest,        \* [obj, t]: result of the last primary nearestIntersection
    shadow,         \* [obj, t]: result of the last shadow nearestIntersection
    light_len,      \* light_len of the last direct-lighting block
    refl_colour,    \* refl_colour of the last direct-lighting block
    dims,           \* indices into primes[] used so far, in order of use
    path,           \* history: the colours of the objects hit by the primary rays
    count,          \* history: [trace, shadow, scatter, sky] operation counters
    exit,           \* how the loop was left: none, miss, limit
    \* ---- Scene::nearestIntersection, run on its own ----
    ni_pc,          \* idle, loop, done
    ni_hits,        \* what o->intersect(r) reports, per object in list order
    ni_i,           \* number of objects the range-for has visited
    nearest_obj,    \* nearest_obj (0 is nullptr, k is objects[k-1])
    nearest_t,      \* nearest_t
    \* ---- RadicalInverse, run on its own ----
    ri_pc,          \* idle, loop, done, trap
    ri_arg,         \* the arguments [a, base] of the call
    a,              \* a
    reversedDigits, \* reversedDigits
    invBaseN,       \* invBaseN, kept as the exponent n of invBase^n
    ri_overflow,    \* has reversedDigits * base + digit left the int range
    ri_result       \* the returned value

pathVars == <<pc, pass, world, ray, throughput, contribution, bounce,
              nearest, shadow, light_len, refl_colour, dims, path, count, exit>>
niVars   == <<ni_pc, ni_hits, ni_i, nearest_obj, nearest_t>>
riVars   == <<ri_pc, ri_arg, a, reversedDigits, invBaseN, ri_overflow, ri_result>>
vars     == <<pathVars, niVars, riVars>>

----------------------------------------------------------------------------
(* Bounds of the model *)

\* largest number of objects in a scene
MaxObjs == 2
\* largest number of objects in a stand-alone nearestIntersection query
MaxQueryObjs == 3
\* largest distance an object reports to a stand-alone query, in units of
\* ray_epsilon
MaxDist == 3
\* largest distance an object reports for a ray of a path
MaxPathDist == 2
\* the small indices 0..MaxIndex are all tried as RadicalInverse's a
MaxIndex == 40

----------------------------------------------------------------------------
(* Constants of the program *)

Max(x, y) == IF x >= y THEN x ELSE y

max_bounces == 3
num_primes  == 6
primes      == <<2, 3, 5, 7, 11, 13>>
ray_epsilon == 1
IntMax      == 2147483647

\* real_inf: larger than every distance an object reports
real_inf == Max(MaxDist, MaxPathDist) + 1

nullptr == 0

\* distances o->intersect(r) can report: 0 is below ray_epsilon (which
\* includes "no intersection"), 1 is exactly ray_epsilon
Dists == 0..MaxDist

\* y components of a unit direction: one below and one above the horizon
DirYs == {-1, 1}

\* values of the direct-light factor max(0, n.l) / light_ln2 * 420, in units
\* of 0.01: zero (the light is behind the surface) and positive
ReflFactors == {0, 1}

\* distances an object reports for a ray of a path: exactly ray_epsilon
\* (not a hit) and above
PathDists == 1..MaxPathDist

\* distances from a hit point to the light: below, at and above the
\* distances the shadow ray can hit at
LightLens == 1..(MaxPathDist + 1)

\* object colours: 1 (non-absorptive), and one with a 0 and a 2 channel
Colours == { <<1, 1, 1>>, <<0, 1, 2>> }

\* values of the argument pass: a small one, 13^8 + 3 (its reversal
\* overflows in base 13, not in bases 2, 3 and 5) and 3^19 + 2 (overflows
\* in base 3)
Passes == {1, 815730724, 1162261469}

\* values of the arguments frame, width, height, x, y: a small image, and
\* one whose frame * width * height does not fit an int
Pixels == { [frame |-> 0, width |-> 10, height |-> 10, x |-> 5, y |-> 9],
            [frame |-> 1, width |-> 65536, height |-> 65536, x |-> 5, y |-> 9] }

\* indices tried as RadicalInverse's a: the small ones, and large ones up
\* to INT_MAX (3^19 + 2, 5^13 + 2, 13^8 + 3, 2^30 + 1, INT_MAX)
RIIndices == (0..MaxIndex) \cup {1162261469, 1220703127, 815730724, 1073741825, IntMax}

----------------------------------------------------------------------------
(* vec3f arithmetic *)

VAdd(u, v) == <<u[1] + v[1], u[2] + v[2], u[3] + v[3]>>
VMul(u, v) == <<u[1] * v[1], u[2] * v[2], u[3] * v[3]>>
VScale(u, k) == <<u[1] * k, u[2] * k, u[3] * k>>
VLeq(u, v) == u[1] <= v[1] /\ u[2] <= v[2] /\ u[3] <= v[3]
VOne == <<1, 1, 1>>
VZero == <<0, 0, 0>>

----------------------------------------------------------------------------
(* Scene::nearestIntersection *)

\* the initial value of the pair (nearest_obj, nearest_t)
NearestInit == [obj |-> nullptr, t |-> real_inf]

\* the test of the loop body, accepting a distance of exactly ray_epsilon
HitAcceptedInclusive(hit_t, cur_t) == hit_t >= ray_epsilon /\ hit_t < cur_t
\* the test of the loop body, with a non-strict comparison of distances
HitAcceptedTie(hit_t, cur_t) == hit_t > ray_epsilon /\ hit_t <= cur_t
\* the test of the loop body (line 21)
HitAccepted(hit_t, cur_t) == hit_t > ray_epsilon /\ hit_t < cur_t

\* one iteration of the range-for: object o reports hit_t
NearestUpdate(acc, o, hit_t) ==
    IF HitAccepted(hit_t, acc.t) THEN [obj |-> o, t |-> hit_t] ELSE acc

RECURSIVE NearestFold(_, _, _)
NearestFold(acc, hits, o) ==
    IF o > Len(hits) THEN acc
    ELSE NearestFold(NearestUpdate(acc, o, hits[o]), hits, o + 1)

\* the whole query, given what each object reports for the ray
nearestIntersection(hits) == NearestFold(NearestInit, hits, 1)

HitSeqs(n) == UNION { [1..k -> Dists] : k \in 0..n }

NIIdle == ni_pc = "idle" /\ ni_hits = <<>> /\ ni_i = 0
          /\ nearest_obj = nullptr /\ nearest_t = real_inf

InitNIQuery ==
    /\ ni_pc = "loop"
    /\ ni_hits \in HitSeqs(MaxQueryObjs)
    /\ ni_i = 0
    /\ nearest_obj = nullptr
    /\ nearest_t = real_inf

NIIterate ==
    /\ ni_pc = "loop"
    /\ ni_i < Len(ni_hits)
    /\ LET o   == ni_i + 1
           res == NearestUpdate([obj |-> nearest_obj, t |-> nearest_t], o, ni_hits[o])
       IN  /\ nearest_obj' = res.obj
           /\ nearest_t' = res.t
           /\ ni_i' = o
    /\ UNCHANGED <<ni_pc, ni_hits, pathVars, riVars>>

NIReturn ==
    /\ ni_pc = "loop"
    /\ ni_i = Len(ni_hits)
    /\ ni_pc' = "done"
    /\ UNCHANGED <<ni_hits, ni_i, nearest_obj, nearest_t, pathVars, riVars>>

----------------------------------------------------------------------------
(* RadicalInverse *)

\* base^n, or 0 when it is larger than INT_MAX
RECURSIVE PowCap(_, _)
PowCap(b, n) ==
    IF n = 0 THEN 1
    ELSE LET p == PowCap(b, n - 1)
         IN  IF p = 0 \/ p > IntMax \div b THEN 0 ELSE p * b

\* does r * base + digit leave the range of int (r >= 0)
MulAddOverflows(r, b, digit) == r > (IntMax - digit) \div b

\* does some step of the loop of RadicalInverse(x, b) overflow, r being the
\* digits reversed so far
RECURSIVE RIOverflows(_, _, _)
RIOverflows(x, b, r) ==
    IF x = 0 THEN FALSE
    ELSE LET next  == x \div b
             digit == x - b * next
         IN  IF MulAddOverflows(r, b, digit) THEN TRUE
             ELSE RIOverflows(next, b, r * b + digit)

\* r * base + digit reduced modulo 2^32 to a signed int, in 16-bit halves
MulAddWrapped(r, b, digit) ==
    LET low  == (r % 65536) * b + digit
        high == (r \div 65536) * b + (low \div 65536)
        hi   == high % 65536
        lo   == low % 65536
    IN  IF hi >= 32768 THEN (hi - 65536) * 65536 + lo ELSE hi * 65536 + lo

\* std::min(reversedDigits * invBaseN, DoubleOneMinusEpsilon), with
\* invBaseN = base^-n: [num, exp] is num / base^exp, and one is set when
\* the product reached 1 and DoubleOneMinusEpsilon was returned instead
RIValue(r, b, n) ==
    LET p == PowCap(b, n)
    IN  IF p # 0 /\ r >= p THEN [num |-> 0, exp |-> 0, one |-> TRUE]
        ELSE [num |-> r, exp |-> n, one |-> FALSE]

RINoResult == [num |-> 0, exp |-> 0, one |-> FALSE]

RIIdle == ri_pc = "idle" /\ ri_arg = [a |-> 0, base |-> 2] /\ a = 0
          /\ reversedDigits = 0 /\ invBaseN = 0 /\ ri_overflow = FALSE
          /\ ri_result = RINoResult

InitRICall ==
    /\ ri_pc = "loop"
    /\ ri_arg \in [a : RIIndices, base : {primes[k] : k \in 1..num_primes}]
    /\ a = ri_arg.a
    /\ reversedDigits = 0
    /\ invBaseN = 0
    /\ ri_overflow = FALSE
    /\ ri_result = RINoResult

\* one iteration of while (a) whose reversedDigits * base + digit fits an int
RIStep ==
    /\ ri_pc = "loop"
    /\ a # 0
    /\ LET next  == a \div ri_arg.base
           digit == a - ri_arg.base * next
       IN  /\ ~MulAddOverflows(reversedDigits, ri_arg.base, digit)
           /\ reversedDigits' = reversedDigits * ri_arg.base + digit
           /\ invBaseN' = invBaseN + 1
           /\ a' = next
    /\ UNCHANGED <<ri_pc, ri_arg, ri_overflow, ri_result, pathVars, niVars>>

\* one iteration of while (a) whose reversedDigits * base + digit overflows:
\* signed overflow is undefined, the build either wraps or traps
RIStepOverflow ==
    /\ ri_pc = "loop"
    /\ a # 0
    /\ LET next  == a \div ri_arg.base
           digit == a - ri_arg.base * next
       IN  /\ MulAddOverflows(reversedDigits, ri_arg.base, digit)
           /\ ri_overflow' = TRUE
           /\ \/ /\ reversedDigits' = MulAddWrapped(reversedDigits, ri_arg.base, digit)
                 /\ invBaseN' = invBaseN + 1
                 /\ a' = next
                 /\ ri_pc' = "loop"
              \/ /\ ri_pc' = "trap"
                 /\ UNCHANGED <<reversedDigits, invBaseN, a>>
    /\ UNCHANGED <<ri_arg, ri_result, pathVars, niVars>>

RIReturn ==
    /\ ri_pc = "loop"
    /\ a = 0
    /\ ri_result' = RIValue(reversedDigits, ri_arg.base, invBaseN)
    /\ ri_pc' = "done"
    /\ UNCHANGED <<ri_arg, a, reversedDigits, invBaseN, ri_overflow, pathVars, niVars>>

----------------------------------------------------------------------------
(* generateColour *)

\* the sky seen along a direction with y component dy, in units of 0.01:
\* sky_hz + (sky_up - sky_hz) * max(0, ray.d.y), with sky_up = (4, 10, 20)
\* and sky_hz = (10, 14, 20)
\* the same gradient without the clamp of ray.d.y at 0
SkyUnclamped(dy) ==
    LET sky_up == VScale(<<2, 5, 10>>, 2)
        sky_hz == VScale(<<5, 7, 10>>, 2)
    IN  VAdd(sky_hz, VScale(VAdd(sky_up, VScale(sky_hz, -1)), dy))
Sky(dy) ==
    LET sky_up == VScale(<<2, 5, 10>>, 2)
        sky_hz == VScale(<<5, 7, 10>>, 2)
    IN  VAdd(sky_hz, VScale(VAdd(sky_up, VScale(sky_hz, -1)), Max(0, dy)))

\* the test with a hit exactly at the light counted as a blocker
UnoccludedStrict(s, len) == s.obj = nullptr \/ s.t > len
\* the condition under which the direct-light term is added (line 169)
Unoccluded(s, len) == s.obj = nullptr \/ s.t >= len

\* a limit that lets one more bounce through
BounceLimitLate(b) == b > max_bounces + 1
\* the condition of "if (++bounce > max_bounces) break", on the new bounce
BounceLimit(b) == b > max_bounces

\* the index into primes[] of sampling dimension k (0 or 1) of a scatter,
\* computed from the already incremented bounce counter
ScatterDim(b, k) == (3 + b * 2 + k) % num_primes

\* a scatter that leaves throughput as it is
ScatterThroughputSkipped(t, colour) == t
\* throughput *= nearest_hit_obj->colour
ScatterThroughput(t, colour) == VMul(t, colour)

Scenes == UNION { [1..k -> Colours] : k \in 0..MaxObjs }

NoCount == [trace |-> 0, shadow |-> 0, scatter |-> 0, sky |-> 0]

PathIdle ==
    /\ pc = "idle" /\ pass = 0 /\ world = <<>> /\ ray = 0
    /\ throughput = VOne /\ contribution = VZero /\ bounce = 0
    /\ nearest = NearestInit /\ shadow = NearestInit /\ light_len = 0
    /\ refl_colour = VZero /\ dims = <<>> /\ path = <<>> /\ count = NoCount
    /\ exit = "none"

InitPath ==
    /\ pc = "start"
    /\ pass \in Passes
    /\ world \in Scenes
    /\ ray = 0
    /\ throughput = VOne /\ contribution = VZero /\ bounce = 0
    /\ nearest = NearestInit /\ shadow = NearestInit /\ light_len = 0
    /\ refl_colour = VZero /\ dims = <<>> /\ path = <<>> /\ count = NoCount
    /\ exit = "none"

\* does frame * width * height + y * width + x (line 104) leave the range
\* of int, for non-negative arguments
PixelIndexOverflows(p) ==
    LET MulOver(u, v) == v # 0 /\ u > IntMax \div v
        AddOver(u, v) == u > IntMax - v
    IN  IF MulOver(p.frame, p.width) THEN TRUE
        ELSE IF MulOver(p.frame * p.width, p.height) THEN TRUE
        ELSE IF MulOver(p.y, p.width) THEN TRUE
        ELSE IF AddOver(p.frame * p.width * p.height, p.y * p.width) THEN TRUE
        ELSE AddOver(p.frame * p.width * p.height + p.y * p.width, p.x)

\* does one of the RadicalInverse(pass, primes[k]) calls for the 0-based
\* indices ks overflow
SamplesOverflow(ks) == \E k \in ks : RIOverflows(pass, primes[k + 1], 0)

\* lines 95-128: the camera samples use primes[0], primes[1], primes[2];
\* the camera ray is a function of the arguments, its direction is drawn
\* here.  When the pixel index or a RadicalInverse call overflows, the
\* build wraps and goes on with some ray, or traps
Begin ==
    /\ pc = "start"
    /\ \E p \in Pixels :
         \/ /\ dims' = <<0, 1, 2>>
            /\ \E dy \in DirYs : ray' = dy
            /\ throughput' = VOne
            /\ contribution' = VZero
            /\ bounce' = 0
            /\ pc' = "trace"
         \/ /\ PixelIndexOverflows(p) \/ SamplesOverflow({0, 1, 2})
            /\ pc' = "trap"
            /\ UNCHANGED <<dims, ray, throughput, contribution, bounce>>
    /\ UNCHANGED <<pass, world, nearest, shadow, light_len, refl_colour, path, count, exit>>
    /\ UNCHANGED <<niVars, riVars>>

\* lines 131-142: the intersection test of the current ray, and the exit
\* through the sky when nothing is hit
Trace ==
    /\ pc = "trace"
    /\ \E hits \in [1..Len(world) -> PathDists] :
         LET res == nearestIntersection(hits)
         IN  /\ nearest' = res
             /\ IF res.obj = nullptr
                THEN /\ contribution' = VAdd(contribution, VMul(throughput, Sky(ray)))
                     /\ count' = [count EXCEPT !.trace = @ + 1, !.sky = @ + 1]
                     /\ pc' = "done"
                     /\ exit' = "miss"
                     /\ UNCHANGED path
                ELSE /\ path' = Append(path, world[res.obj])
                     /\ count' = [count EXCEPT !.trace = @ + 1]
                     /\ pc' = "light"
                     /\ UNCHANGED <<contribution, exit>>
    /\ UNCHANGED <<pass, world, ray, throughput, bounce, shadow, light_len,
                   refl_colour, dims>>
    /\ UNCHANGED <<niVars, riVars>>

\* lines 144-171: direct lighting.  The factor max(0, n.l) / light_ln2 * 420
\* and light_len come from the hit point and the object's normal, and what
\* the objects report for the shadow ray from their geometry
DirectLight ==
    /\ pc = "light"
    /\ \E f \in ReflFactors, len \in LightLens, hits \in [1..Len(world) -> PathDists] :
         LET refl == VScale(world[nearest.obj], f)
             s    == nearestIntersection(hits)
         IN  /\ refl_colour' = refl
             /\ light_len' = len
             /\ shadow' = s
             /\ contribution' = IF Unoccluded(s, len)
                                THEN VAdd(contribution, VMul(throughput, refl))
                                ELSE contribution
    /\ count' = [count EXCEPT !.shadow = @ + 1]
    /\ pc' = "bounce"
    /\ UNCHANGED <<pass, world, ray, throughput, bounce, nearest, dims, path, exit>>
    /\ UNCHANGED <<niVars, riVars>>

\* lines 173-197: the bounce limit, and the diffuse scatter.  The new
\* direction is normalise(normal + sphere); its y component is drawn here.
\* The iteration's block-scoped values end with the iteration.  When a
\* RadicalInverse call of the scatter overflows, the build wraps and goes
\* on with some direction, or traps
Bounce ==
    /\ pc = "bounce"
    /\ bounce' = bounce + 1
    /\ IF BounceLimit(bounce + 1)
       THEN /\ pc' = "done"
            /\ exit' = "limit"
            /\ UNCHANGED <<dims, throughput, ray, count, nearest, shadow,
                           light_len, refl_colour>>
       ELSE \/ /\ dims' = dims \o <<ScatterDim(bounce + 1, 0), ScatterDim(bounce + 1, 1)>>
               /\ throughput' = ScatterThroughput(throughput, world[nearest.obj])
               /\ \E dy \in DirYs : ray' = dy
               /\ count' = [count EXCEPT !.scatter = @ + 1]
               /\ nearest' = NearestInit
               /\ shadow' = NearestInit
               /\ light_len' = 0
               /\ refl_colour' = VZero
               /\ pc' = "trace"
               /\ UNCHANGED exit
            \/ /\ SamplesOverflow({ScatterDim(bounce + 1, 0), ScatterDim(bounce + 1, 1)})
               /\ pc' = "trap"
               /\ UNCHANGED <<dims, throughput, ray, count, nearest, shadow,
                              light_len, refl_colour, exit>>
    /\ UNCHANGED <<pass, world, contribution, path>>
    /\ UNCHANGED <<niVars, riVars>>

----------------------------------------------------------------------------
(* Specifications *)

\* one call of generateColour on a scene
Init == InitPath /\ NIIdle /\ RIIdle
Next == Begin \/ Trace \/ DirectLight \/ Bounce
Spec == Init /\ [][Next]_vars

\* one call of Scene::nearestIntersection
InitNI == PathIdle /\ InitNIQuery /\ RIIdle
NextNI == NIIterate \/ NIReturn
SpecNI == InitNI /\ [][NextNI]_vars

\* one call of RadicalInverse
InitRI == PathIdle /\ NIIdle /\ InitRICall
NextRI == RIStep \/ RIStepOverflow \/ RIReturn
SpecRI == InitRI /\ [][NextRI]_vars

----------------------------------------------------------------------------
(* Properties of the bounce loop *)

\* the product of the colours of the first k objects of the path
RECURSIVE PathProduct(_)
PathProduct(k) ==
    IF k = 0 THEN VOne ELSE VMul(PathProduct(k - 1), path[k])

\* an upper bound on the number of steps the call still has to take
StepsLeft ==
    CASE pc = "start"  -> 3 * (max_bounces + 1) + 1
      [] pc = "trace"  -> 3 * (max_bounces + 1 - bounce)
      [] pc = "light"  -> 3 * (max_bounces + 1 - bounce) - 1
      [] pc = "bounce" -> 3 * (max_bounces + 1 - bounce) - 2
      [] OTHER         -> 0

\* C1: the bounce loop ends, after at most max_bounces + 1 primary
\* intersection queries and at most max_bounces scatters, and bounce never
\* exceeds max_bounces + 1, whatever the scene reports: the counters are
\* bounded, a call that has neither returned nor been aborted by an
\* overflow trap can always take a step, and every step brings the end
\* nearer.
C1_BounceLoopTerminates ==
    /\ [](/\ count.trace <= max_bounces + 1
          /\ count.scatter <= max_bounces
          /\ bounce <= max_bounces + 1
          /\ StepsLeft >= 0
          /\ pc \notin {"done", "trap"} => ENABLED Next)
    /\ [][StepsLeft' < StepsLeft]_vars

\* a path in a scene of colour-1 objects that hit at every query and ran
\* into the bounce limit
C1_Witness ==
    /\ pc = "done" /\ exit = "limit"
    /\ world # <<>> /\ \A k \in 1..Len(world) : world[k] = VOne
    /\ count.trace = max_bounces + 1
    /\ count.scatter = max_bounces

\* C2: with no objects the query returns (nullptr, real_inf) and a call
\* that returns, returns the sky colour of the camera ray's direction, after
\* one query, without a shadow ray, a direct-light term or a scatter (so
\* that ray still is the camera ray).
C2_EmptyScene ==
    world = <<>> =>
        /\ pc \in {"start", "trace", "done", "trap"}
        /\ count.shadow = 0 /\ count.scatter = 0
        /\ pc = "done" =>
             /\ nearest = [obj |-> nullptr, t |-> real_inf]
             /\ exit = "miss"
             /\ count.trace = 1
             /\ ray <= 0 => contribution = <<10, 14, 20>>
             /\ ray = 1 => contribution = <<4, 10, 20>>

\* an empty scene whose call has returned, for a ray below the horizon
C2_Witness == world = <<>> /\ pc = "done" /\ ray < 0 /\ contribution # VZero

\* C4: the direct-light term, scaled by throughput, is added exactly when
\* the shadow ray hits nothing or hits at or beyond light_len; otherwise the
\* direct-lighting step leaves contribution unchanged.
C4_DirectLightIffUnoccluded ==
    [][pc = "light" =>
         IF shadow'.obj = nullptr \/ shadow'.t >= light_len'
         THEN contribution' = VAdd(contribution, VMul(throughput, refl_colour'))
         ELSE contribution' = contribution]_vars

\* the first hit's light is blocked by an object nearer than the light:
\* a non-zero term was not added
C4_Witness ==
    /\ pc = "bounce" /\ bounce = 0
    /\ shadow.obj # nullptr /\ shadow.t < light_len
    /\ refl_colour # VZero
    /\ contribution = VZero

\* C9: throughput is the product of the colours of the objects the path
\* has scattered at; sky and direct-light terms are added scaled by it, the
\* colour of a hit object enters only with the scatter that follows its
\* direct-lighting step, contribution never decreases, the sky is added at
\* most once and only on a miss, and nothing is added at the bounce limit.
C9_Throughput ==
    /\ [](/\ pc = "trace" => Len(path) = bounce /\ throughput = PathProduct(bounce)
          /\ pc \in {"light", "bounce"} =>
               Len(path) = bounce + 1 /\ throughput = PathProduct(bounce)
          /\ count.sky <= 1
          /\ count.sky = 1 <=> exit = "miss")
    /\ [][/\ VLeq(contribution, contribution')
          /\ pc = "trace" /\ pc' = "done" =>
               contribution' = VAdd(contribution, VMul(PathProduct(Len(path)), Sky(ray)))
          /\ pc = "trace" /\ pc' = "light" => contribution' = contribution
          /\ pc = "light" =>
               contribution' \in {contribution,
                     VAdd(contribution, VMul(PathProduct(Len(path) - 1), refl_colour'))}
          /\ pc = "bounce" => contribution' = contribution
          /\ throughput' # throughput => pc = "bounce" /\ pc' = "trace"
          /\ pc = "bounce" /\ pc' = "trace" =>
               throughput' = VMul(throughput, path[Len(path)])]_vars

\* a path that scattered twice at absorbing objects and left through the sky
C9_Witness ==
    /\ pc = "done" /\ exit = "miss"
    /\ Len(path) = 2
    /\ throughput = <<0, 1, 4>>
    /\ contribution # VZero

\* C7, as claimed: the camera uses primes[0..2] and the b-th scatter, counted
\* from 0, uses primes[(3 + 2b) mod 6] and primes[(3 + 2b + 1) mod 6].
C7_DimsAsClaimed ==
    dims # <<>> =>
        /\ SubSeq(dims, 1, 3) = <<0, 1, 2>>
        /\ Len(dims) = 3 + 2 * count.scatter
        /\ \A b \in 0..(count.scatter - 1) :
             /\ dims[3 + 2 * b + 1] = (3 + 2 * b) % num_primes
             /\ dims[3 + 2 * b + 2] = (3 + 2 * b + 1) % num_primes

----------------------------------------------------------------------------
(* Properties of nearestIntersection *)

\* the objects of the query whose reported distance exceeds ray_epsilon
ValidHits == { k \in 1..Len(ni_hits) : ni_hits[k] > ray_epsilon }

ObjectOrders(n) == { p \in [1..n -> 1..n] : \A i, j \in 1..n : p[i] = p[j] => i = j }

\* C3: the query returns the least reported distance above ray_epsilon with
\* an object that reported it, or (nullptr, real_inf) when there is none;
\* never a distance of ray_epsilon or less; and the distance is the same for
\* every order of the objects.
C3_NearestIsMinimum ==
    ni_pc = "done" =>
        /\ nearest_t > ray_epsilon
        /\ IF ValidHits = {}
           THEN nearest_obj = nullptr /\ nearest_t = real_inf
           ELSE /\ nearest_obj \in ValidHits
                /\ ni_hits[nearest_obj] = nearest_t
                /\ \A k \in ValidHits : nearest_t <= ni_hits[k]
        /\ \A p \in ObjectOrders(Len(ni_hits)) :
             nearestIntersection([k \in 1..Len(ni_hits) |-> ni_hits[p[k]]]).t = nearest_t

\* a finished query where the minimum is not the first valid distance and
\* some object reported exactly ray_epsilon
C3_Witness ==
    /\ ni_pc = "done"
    /\ nearest_obj > 1
    /\ \E k \in ValidHits : ni_hits[k] > nearest_t
    /\ \E k \in 1..Len(ni_hits) : ni_hits[k] = ray_epsilon

\* C8: among objects reporting the same least valid distance the first in
\* list order is returned; the current nearest is replaced only by an
\* object whose distance is strictly smaller.
C8_FirstWinsTies ==
    /\ [](ni_pc = "done" /\ nearest_obj # nullptr =>
            \A k \in ValidHits : ni_hits[k] = nearest_t => nearest_obj <= k)
    /\ [][nearest_obj' # nearest_obj => ni_hits[ni_i'] < nearest_t]_vars

\* a finished query in which two objects reported the least valid distance
C8_Witness ==
    /\ ni_pc = "done"
    /\ \E j, k \in ValidHits :
         j < k /\ ni_hits[j] = nearest_t /\ ni_hits[k] = nearest_t /\ nearest_obj = j

----------------------------------------------------------------------------
(* Properties of RadicalInverse *)

\* the n lowest base-b digits of x, lowest first
RECURSIVE Digits(_, _, _)
Digits(x, b, n) ==
    IF n = 0 THEN <<>> ELSE <<x % b>> \o Digits(x \div b, b, n - 1)

Reverse(s) == [k \in 1..Len(s) |-> s[Len(s) + 1 - k]]

RECURSIVE NumDigits(_, _)
NumDigits(x, b) == IF x = 0 THEN 0 ELSE 1 + NumDigits(x \div b, b)

\* C10, as claimed: reversedDigits * base + digit stays within int at every
\* step of the loop.
C10_NoOverflowAsClaimed == ~ri_overflow

\* C6, as claimed: the call returns, and what it returns is the digit
\* reversal of a read as a fraction, at least 0 and less than 1; 0 for a = 0,
\* 1/2 for (1, 2) and 1/3 for (1, 3).
C6_ReversalAsClaimed ==
    /\ ri_pc # "trap"
    /\ ri_pc = "done" =>
         /\ ~ri_result.one
         /\ ri_result.num >= 0
         /\ ri_result.exp = NumDigits(ri_arg.a, ri_arg.base)
         /\ Digits(ri_result.num, ri_arg.base, ri_result.exp)
              = Reverse(Digits(ri_arg.a, ri_arg.base, ri_result.exp))
         /\ LET p == PowCap(ri_arg.base, ri_result.exp)
            IN  p = 0 \/ ri_result.num < p
         /\ ri_arg.a = 0 => ri_result.num = 0
         /\ ri_arg.a = 1 => ri_result.num = 1 /\ ri_result.exp = 1

====
